---- MODULE Spec2Model ----
(***************************************************************************)
(* The layout model, its structural validator and the per-cell gate rule   *)
(* of chipwizard_sim/models.py.                                            *)
(*                                                                         *)
(* Three specifications share the module:                                  *)
(*   SpecCell      one Cell, validated by Cell.check                       *)
(*   SpecSolution  one 6x5 Solution, validated by Solution.check           *)
(*   SpecGates     one CellState: construction, writes to the powered      *)
(*                 flags and update_gates                                  *)
(* An assert that fails raises AssertionError: a check's outcome is "ok"   *)
(* or the failing assert, named by its source line.                        *)
(***************************************************************************)
EXTENDS Integers, FiniteSets, Sequences, TLC

VARIABLES
    cell,        \* SpecCell: the Cell under validation
    cellResult,  \* SpecCell: "unchecked", or the outcome of Cell.check
    cells,       \* SpecSolution: Solution.cells, cells[x][y]
    solResult,   \* SpecSolution: "unchecked", or the outcome of Solution.check
    cs,          \* SpecGates: the CellState
    origin,      \* SpecGates: how cs was constructed ("ctor" or "from_cell")
    last         \* SpecGates: the last operation applied to cs

vars == <<cell, cellResult, cells, solResult, cs, origin, last>>

(***************************************************************************)
(* Geometry primitives                                                     *)
(***************************************************************************)
Width == 6
Height == 5

Coords(x, y) == [x |-> x, y |-> y]

in_bounds(c) == 0 <= c.x /\ c.x < Width /\ 0 <= c.y /\ c.y < Height

CoordsAdd(a, o) == Coords(a.x + o.x, a.y + o.y)

Direction == {"RIGHT", "UP", "LEFT", "DOWN"}

opposite(d) ==
    CASE d = "RIGHT" -> "LEFT"
      [] d = "UP"    -> "DOWN"
      [] d = "LEFT"  -> "RIGHT"
      [] d = "DOWN"  -> "UP"

delta(d) ==
    CASE d = "RIGHT" -> Coords(1, 0)
      [] d = "UP"    -> Coords(0, 1)
      [] d = "LEFT"  -> Coords(-1, 0)
      [] d = "DOWN"  -> Coords(0, -1)

Layer == {"METAL_LAYER", "NTYPE_LAYER", "PTYPE_LAYER"}

(***************************************************************************)
(* Layout model                                                            *)
(***************************************************************************)
LayerCell == [value : BOOLEAN, connections : SUBSET Direction]

Cell == [metal : LayerCell, ntype : LayerCell, ptype : LayerCell,
         capacitor : BOOLEAN, via : BOOLEAN, n_on_top : BOOLEAN]

\* Cell.layer and CellState.layer: [metal, ntype, ptype][idx.value]
layer(c, idx) ==
    CASE idx = "METAL_LAYER" -> c.metal
      [] idx = "NTYPE_LAYER" -> c.ntype
      [] idx = "PTYPE_LAYER" -> c.ptype

\* mutant of LayerCell.check: the test of self.value inverted
LayerCellCheckInverted(lc) == ~lc.value \/ lc.connections = {}

\* LayerCell.check: TRUE iff its assert passes
LayerCellCheck(lc) == lc.value \/ lc.connections = {}

\* Cell.is_transistor: the truth value of "self.ntype and self.ptype"
is_transistor(c) == c.ntype.value /\ c.ptype.value

\* sum((d.delta() for d in S), Coords(0, 0))
RECURSIVE SumDeltas(_)
SumDeltas(S) ==
    IF S = {} THEN Coords(0, 0)
    ELSE LET d == CHOOSE e \in S : TRUE
         IN CoordsAdd(SumDeltas(S \ {d}), delta(d))

\* mutant of EmiCol: the emitter/collector picked as the base is
EmiColSwapped(c) == IF c.n_on_top THEN c.ntype ELSE c.ptype

\* the layer playing the base of a transistor, and the emitter/collector
Base(c) == IF c.n_on_top THEN c.ntype ELSE c.ptype

EmiCol(c) == IF c.n_on_top THEN c.ptype ELSE c.ntype

\* assert at line 134-136
EmiColOk(c) ==
    /\ Cardinality(EmiCol(c).connections) = 2
    /\ SumDeltas(EmiCol(c).connections) = Coords(0, 0)

\* assert at line 139
BaseOk(c) == Cardinality(Base(c).connections) >= 1

\* mutant of CapacitorOk: "assert not (self.ntype and self.ptype)"
CapacitorOkTransistorOnly(c) ==
    c.capacitor => ~(c.ntype.value /\ c.ptype.value)

\* lines 117-119: capacitors can't overlap with silicon
CapacitorOk(c) == c.capacitor => (~c.ntype.value /\ ~c.ptype.value)

\* line 123: a via needs ntype or ptype
ViaOnSilicon(c) == c.via => (c.ntype.value \/ c.ptype.value)

\* line 124: a via is not on a transistor
ViaOffTransistor(c) == c.via => ~is_transistor(c)

\* mutant of OverlapOk: the ntype connections compared with the metal ones
OverlapOkWrongLayer(c) == c.ntype.connections \cap c.metal.connections = {}

\* line 127: the ntype and ptype connections share no direction
OverlapOk(c) == c.ntype.connections \cap c.ptype.connections = {}

\* Cell.check: "ok", or the first assert that fails
CellCheck(c) ==
    IF ~LayerCellCheck(c.metal) \/ ~LayerCellCheck(c.ntype)
          \/ ~LayerCellCheck(c.ptype) THEN "assert_86"
    ELSE IF ~CapacitorOk(c) THEN "assert_119"
    ELSE IF ~ViaOnSilicon(c) THEN "assert_123"
    ELSE IF ~ViaOffTransistor(c) THEN "assert_124"
    ELSE IF ~OverlapOk(c) THEN "assert_127"
    ELSE IF is_transistor(c) /\ ~EmiColOk(c) THEN "assert_134"
    ELSE IF is_transistor(c) /\ ~BaseOk(c) THEN "assert_139"
    ELSE "ok"

(***************************************************************************)
(* Solution.check                                                          *)
(***************************************************************************)
\* mutant of ConnectionOk: the pin rows are not tested
ConnectionOkAnyRow(g, x, y, l, d) ==
    LET n_loc == CoordsAdd(Coords(x, y), delta(d))
    IN IF in_bounds(n_loc)
       THEN opposite(d) \in layer(g[n_loc.x][n_loc.y], l).connections
       ELSE /\ l = "METAL_LAYER"
            /\ n_loc.x \in {-1, 6}

\* the asserts at lines 157-160 and 162-166, for one connection
ConnectionOk(g, x, y, l, d) ==
    LET n_loc == CoordsAdd(Coords(x, y), delta(d))
    IN IF in_bounds(n_loc)
       THEN opposite(d) \in layer(g[n_loc.x][n_loc.y], l).connections
       ELSE /\ l = "METAL_LAYER"
            /\ n_loc.x \in {-1, 6}
            /\ n_loc.y \in {0, 2, 4}

\* the assert at line 149
ShapeOk(g) ==
    /\ DOMAIN g = 0..5
    /\ \A x \in DOMAIN g : DOMAIN g[x] = 0..4

\* Solution.check: "ok", or "AssertionError"
SolutionCheck(g) ==
    IF /\ ShapeOk(g)
       /\ \A x \in 0..5 : \A y \in 0..4 :
             /\ CellCheck(g[x][y]) = "ok"
             /\ \A l \in Layer : \A d \in layer(g[x][y], l).connections :
                    ConnectionOk(g, x, y, l, d)
    THEN "ok" ELSE "AssertionError"

EmptyLayerCell == [value |-> FALSE, connections |-> {}]

EmptyCell == [metal |-> EmptyLayerCell, ntype |-> EmptyLayerCell,
              ptype |-> EmptyLayerCell, capacitor |-> FALSE, via |-> FALSE,
              n_on_top |-> FALSE]

(***************************************************************************)
(* SpecCell: every Cell the dataclass can hold, then Cell.check            *)
(***************************************************************************)
\* what a specification's unused variables hold
NoCell == "none"

NoSolution == "none"

NoCellState == "none"

InitCell ==
    /\ cell \in Cell
    /\ cellResult = "unchecked"
    /\ cells = NoSolution
    /\ solResult = "unchecked"
    /\ cs = NoCellState
    /\ origin = "none"
    /\ last = "none"

CheckCell ==
    /\ cellResult = "unchecked"
    /\ cellResult' = CellCheck(cell)
    /\ UNCHANGED <<cell, cells, solResult, cs, origin, last>>

NextCell == CheckCell

SpecCell == InitCell /\ [][NextCell]_vars

(***************************************************************************)
(* Runtime state model and the gate rule                                   *)
(***************************************************************************)
LayerCellState == [value : BOOLEAN, connections : SUBSET Direction,
                   powered : BOOLEAN, open : BOOLEAN]

\* LayerCellState.from_layer_cell: powered and open take their defaults
from_layer_cell(lc) ==
    [value |-> lc.value, connections |-> lc.connections,
     powered |-> FALSE, open |-> TRUE]

\* The truth value of a LayerCellState in "if self.capacitor and self.metal"
\* and "if self.ntype and self.ptype".  LayerCell defines __bool__ (line 81);
\* LayerCellState is a dataclass of its own that defines neither __bool__ nor
\* __len__, so every instance is true.
LayerCellStateBool(ls) == TRUE

\* mutant of GateCapacitor: an unpowered capacitor flips the flag
GateCapacitorFlip(s) ==
    IF s.capacitor /\ LayerCellStateBool(s.metal)
    THEN IF ~s.metal.powered
         THEN [s EXCEPT !.metal.open = ~s.metal.open] ELSE s
    ELSE s

\* mutant of GateCapacitor: a powered capacitor sets the flag again
GateCapacitorRecharge(s) ==
    IF s.capacitor /\ LayerCellStateBool(s.metal)
    THEN [s EXCEPT !.metal.open = s.metal.powered]
    ELSE s

\* lines 219-221
GateCapacitor(s) ==
    IF s.capacitor /\ LayerCellStateBool(s.metal)
    THEN IF ~s.metal.powered THEN [s EXCEPT !.metal.open = FALSE] ELSE s
    ELSE s

\* mutant of GateTransistor: the n_on_top branch without its negation
GateTransistorNoNegation(s) ==
    IF LayerCellStateBool(s.ntype) /\ LayerCellStateBool(s.ptype)
    THEN IF s.n_on_top
         THEN [s EXCEPT !.ptype.open = s.ntype.powered]
         ELSE [s EXCEPT !.ntype.open = s.ptype.powered]
    ELSE s

\* lines 223-227
GateTransistor(s) ==
    IF LayerCellStateBool(s.ntype) /\ LayerCellStateBool(s.ptype)
    THEN IF s.n_on_top
         THEN [s EXCEPT !.ptype.open = ~s.ntype.powered]
         ELSE [s EXCEPT !.ntype.open = s.ptype.powered]
    ELSE s

\* CellState.update_gates
update_gates(s) == GateTransistor(GateCapacitor(s))

\* CellState.from_cell
from_cell(c) ==
    update_gates([metal |-> from_layer_cell(c.metal),
                  ntype |-> from_layer_cell(c.ntype),
                  ptype |-> from_layer_cell(c.ptype),
                  capacitor |-> c.capacitor, via |-> c.via,
                  n_on_top |-> c.n_on_top])

(***************************************************************************)
(* SpecGates: a CellState is constructed, directly with any field values   *)
(* or by from_cell; then the powered flags are written and update_gates    *)
(* is applied, in any order.                                               *)
(***************************************************************************)
\* connection sets the constructed states carry (update_gates reads none)
GateConnections == {{}, {"LEFT", "RIGHT"}}

GateLayerCells == [value : BOOLEAN, connections : GateConnections]

GateCells == [metal : GateLayerCells, ntype : GateLayerCells,
              ptype : GateLayerCells,
              capacitor : BOOLEAN, via : BOOLEAN, n_on_top : BOOLEAN]

GateLayerCellStates == [value : BOOLEAN, connections : GateConnections,
                        powered : BOOLEAN, open : BOOLEAN]

GateCellStates == [metal : GateLayerCellStates, ntype : GateLayerCellStates,
                   ptype : GateLayerCellStates,
                   capacitor : BOOLEAN, via : BOOLEAN, n_on_top : BOOLEAN]

InitGates ==
    /\ cell = NoCell
    /\ cellResult = "unchecked"
    /\ cells = NoSolution
    /\ solResult = "unchecked"
    /\ \/ /\ cs \in GateCellStates
          /\ origin = "ctor"
          /\ last = "ctor"
       \/ /\ \E c \in GateCells : cs = from_cell(c)
          /\ origin = "from_cell"
          /\ last = "from_cell"

\* a write to one layer's powered flag (the field at line 195)
SetPowered(l, b) ==
    /\ cs' = CASE l = "METAL_LAYER" -> [cs EXCEPT !.metal.powered = b]
               [] l = "NTYPE_LAYER" -> [cs EXCEPT !.ntype.powered = b]
               [] l = "PTYPE_LAYER" -> [cs EXCEPT !.ptype.powered = b]
    /\ cs' # cs
    /\ last' = "set_powered"
    /\ UNCHANGED <<cell, cellResult, cells, solResult, origin>>

\* update_gates; last tells whether no powered flag was written since the
\* previous application (from_cell applies it once)
UpdateGates ==
    /\ cs' = update_gates(cs)
    /\ last' = IF last \in {"from_cell", "update_gates", "update_gates_again"}
               THEN "update_gates_again" ELSE "update_gates"
    /\ UNCHANGED <<cell, cellResult, cells, solResult, origin>>

NextGates ==
    \/ \E l \in Layer, b \in BOOLEAN : SetPowered(l, b)
    \/ UpdateGates

SpecGates == InitGates /\ [][NextGates]_vars

(***************************************************************************)
(* SpecSolution: a 6x5 Solution, then Solution.check.  The Solutions are   *)
(* the grids that are empty but for the first NumActive coordinates of     *)
(* ActiveSeq, each of which holds any cell of PoolCells.                   *)
(***************************************************************************)
NumActive == 3

\* a corner of the board, its two neighbours, the opposite corner and on
ActiveSeq == <<Coords(0, 0), Coords(0, 1), Coords(5, 4), Coords(1, 0),
               Coords(5, 3), Coords(1, 1)>>

ActiveCoords ==
    {ActiveSeq[i] : i \in 1..(IF NumActive < Len(ActiveSeq)
                               THEN NumActive ELSE Len(ActiveSeq))}

\* a cell with one layer set and nothing else
OneLayerCell(l, lc) ==
    CASE l = "METAL_LAYER" -> [EmptyCell EXCEPT !.metal = lc]
      [] l = "NTYPE_LAYER" -> [EmptyCell EXCEPT !.ntype = lc]
      [] l = "PTYPE_LAYER" -> [EmptyCell EXCEPT !.ptype = lc]

\* every layer present with at most one connection, and every layer absent
\* with no connection (the empty cell) or with one it must not have
PoolCells ==
    {OneLayerCell(l, [value |-> TRUE, connections |-> S]) :
        l \in Layer, S \in {T \in SUBSET Direction : Cardinality(T) <= 1}}
    \cup
    {OneLayerCell(l, [value |-> FALSE, connections |-> S]) :
        l \in Layer, S \in {{}, {"RIGHT"}}}

InitSolution ==
    /\ cell = NoCell
    /\ cellResult = "unchecked"
    /\ \E f \in [ActiveCoords -> PoolCells] :
          cells = [x \in 0..(Width - 1) |-> [y \in 0..(Height - 1) |->
                      IF Coords(x, y) \in ActiveCoords
                      THEN f[Coords(x, y)] ELSE EmptyCell]]
    /\ solResult = "unchecked"
    /\ cs = NoCellState
    /\ origin = "none"
    /\ last = "none"

CheckSolution ==
    /\ solResult = "unchecked"
    /\ solResult' = SolutionCheck(cells)
    /\ UNCHANGED <<cell, cellResult, cells, cs, origin, last>>

NextSolution == CheckSolution

SpecSolution == InitSolution /\ [][NextSolution]_vars

(***************************************************************************)
(* Properties of Cell.check (SpecCell)                                     *)
(***************************************************************************)
\* the connections of the non-base (channel) layer and of the base layer
NonBaseConnections ==
    IF cell.n_on_top THEN cell.ptype.connections ELSE cell.ntype.connections

BaseConnections ==
    IF cell.n_on_top THEN cell.ntype.connections ELSE cell.ptype.connections

OppositePairs == {{"LEFT", "RIGHT"}, {"UP", "DOWN"}}

\* C2: a cell with n-type and p-type both present passes Cell.check only if
\* its non-base layer (p-type when n_on_top, else n-type) has exactly two
\* connections whose unit deltas sum to (0,0) and its base layer has at least
\* one connection; a transistor cell violating either fails validation.
C2_TransistorGeometry ==
    LET geometry ==
            /\ \E d1 \in Direction, d2 \in Direction :
                  /\ d1 # d2
                  /\ NonBaseConnections = {d1, d2}
                  /\ delta(d1).x + delta(d2).x = 0
                  /\ delta(d1).y + delta(d2).y = 0
            /\ Cardinality(BaseConnections) >= 1
    IN (cell.ntype.value /\ cell.ptype.value) =>
          /\ cellResult = "ok" => geometry
          /\ (cellResult # "unchecked" /\ ~geometry) => cellResult # "ok"

C2_Witness ==
    /\ cellResult = "ok"
    /\ cell.ntype.value /\ cell.ptype.value /\ cell.n_on_top
    /\ cell.ptype.connections = {"UP", "DOWN"}
    /\ cell.ntype.connections = {"LEFT"}

\* C7: Cell.check succeeds only if a capacitor has neither n-type nor p-type
\* under it and a via has exactly one of n-type / p-type under it.
C7_ComponentPlacement ==
    LET placement ==
            /\ cell.capacitor => (~cell.ntype.value /\ ~cell.ptype.value)
            /\ cell.via => (cell.ntype.value # cell.ptype.value)
    IN /\ cellResult = "ok" => placement
       /\ (cellResult # "unchecked" /\ ~placement) => cellResult # "ok"

C7_Witness ==
    /\ cellResult = "ok"
    /\ cell.via /\ cell.ntype.value /\ ~cell.ptype.value
    /\ cell.capacitor = FALSE

\* C10: in a transistor cell that passes Cell.check the channel layer holds
\* exactly one opposite pair, the base layer's connections are a non-empty
\* subset of the other opposite pair (so one or two of them), and n-type and
\* p-type share no direction.
C10_BasePerpendicular ==
    (cellResult = "ok" /\ cell.ntype.value /\ cell.ptype.value) =>
        /\ NonBaseConnections \in OppositePairs
        /\ BaseConnections # {}
        /\ BaseConnections \subseteq (Direction \ NonBaseConnections)
        /\ (Direction \ NonBaseConnections) \in OppositePairs
        /\ Cardinality(BaseConnections) \in {1, 2}
        /\ cell.ntype.connections \cap cell.ptype.connections = {}

C10_Witness ==
    /\ cellResult = "ok"
    /\ cell.ntype.value /\ cell.ptype.value /\ ~cell.n_on_top
    /\ cell.ntype.connections = {"LEFT", "RIGHT"}
    /\ cell.ptype.connections = {"UP", "DOWN"}

(***************************************************************************)
(* Properties of Solution.check (SpecSolution)                             *)
(***************************************************************************)
\* a connection of cell (x,y), layer l, direction d that is reciprocated by
\* its in-bounds neighbour, or leaves the board at a pin on the metal layer
ReciprocatedOrPin(x, y, l, d) ==
    LET nx == x + delta(d).x
        ny == y + delta(d).y
        inside == nx \in 0..5 /\ ny \in 0..4
    IN \/ inside /\ opposite(d) \in layer(cells[nx][ny], l).connections
       \/ /\ ~inside
          /\ l = "METAL_LAYER"
          /\ nx \in {-1, 6}
          /\ ny \in {0, 2, 4}

\* C1: Solution.check completes without error only if every connection of
\* every cell and layer is reciprocated by the in-bounds neighbour or is a
\* metal connection to a pin position (x in {-1,6}, y in {0,2,4}); any other
\* out-of-bounds connection makes Solution.check fail.
C1_Reciprocity ==
    LET allOk == \A x \in 0..5 : \A y \in 0..4 : \A l \in Layer :
                    \A d \in layer(cells[x][y], l).connections :
                        ReciprocatedOrPin(x, y, l, d)
    IN /\ solResult = "ok" => allOk
       /\ (solResult # "unchecked" /\ ~allOk) => solResult = "AssertionError"

C1_Witness ==
    /\ solResult = "ok"
    /\ cells[0][0].metal.connections = {"UP"}
    /\ cells[0][1].metal.connections = {"DOWN"}
    /\ cells[5][4].metal.connections = {"RIGHT"}

\* a layer-cell that is absent and still has connections
Inconsistent(lc) == ~lc.value /\ lc.connections # {}

\* C8: a layer-cell with present = false and a non-empty connection set
\* fails LayerCell.check, Cell.check and Solution.check, whichever layer of
\* whichever cell holds it; every layer-cell of a Solution that passes
\* Solution.check has present = false => connections empty.
C8_PresenceConsistency ==
    /\ \A x \in 0..5 : \A y \in 0..4 : \A l \in Layer :
          Inconsistent(layer(cells[x][y], l)) =>
              /\ ~LayerCellCheck(layer(cells[x][y], l))
              /\ CellCheck(cells[x][y]) # "ok"
              /\ solResult # "unchecked" => solResult = "AssertionError"
    /\ solResult = "ok" =>
          \A x \in 0..5 : \A y \in 0..4 : \A l \in Layer :
              ~layer(cells[x][y], l).value =>
                  layer(cells[x][y], l).connections = {}

C8_Witness ==
    /\ solResult = "AssertionError"
    /\ Inconsistent(cells[5][4].ptype)
    /\ cells[0][0] = EmptyCell
    /\ cells[0][1] = EmptyCell

(***************************************************************************)
(* Properties of update_gates and from_cell (SpecGates)                    *)
(***************************************************************************)
GatesApplied == last \in {"from_cell", "update_gates", "update_gates_again"}

Opens(s) == <<s.metal.open, s.ntype.open, s.ptype.open>>

\* neither a capacitor on a present metal layer nor a transistor
Plain(s) ==
    /\ ~(s.capacitor /\ s.metal.value)
    /\ ~(s.ntype.value /\ s.ptype.value)

\* C3: a CellState that is neither a capacitor on a present metal layer nor
\* a transistor keeps open = true on all three layers: from_cell yields it
\* and no later update_gates, whatever the powered flags, clears it.
C3_PlainNeverGates ==
    (origin = "from_cell" /\ Plain(cs)) => Opens(cs) = <<TRUE, TRUE, TRUE>>

\* C4: after update_gates on a transistor CellState, with n_on_top the
\* p-type open flag is the negation of the n-type powered flag, without
\* n_on_top the n-type open flag equals the p-type powered flag; the base
\* layer's own open flag is not changed.
C4_TransistorGate ==
    /\ [](( GatesApplied /\ cs.ntype.value /\ cs.ptype.value ) =>
            IF cs.n_on_top
            THEN cs.ptype.open = ~cs.ntype.powered
            ELSE cs.ntype.open = cs.ptype.powered)
    /\ []((last = "from_cell" /\ cs.ntype.value /\ cs.ptype.value) =>
            IF cs.n_on_top THEN cs.ntype.open ELSE cs.ptype.open)
    /\ [][(last' \in {"update_gates", "update_gates_again"}
             /\ cs.ntype.value /\ cs.ptype.value) =>
            IF cs.n_on_top
            THEN cs'.ntype.open = cs.ntype.open
            ELSE cs'.ptype.open = cs.ptype.open]_vars

C4_Witness ==
    /\ last = "update_gates"
    /\ cs.ntype.value /\ cs.ptype.value /\ cs.n_on_top
    /\ cs.ntype.powered
    /\ ~cs.ptype.open

\* C5: for a capacitor on a present metal layer derived by from_cell, once
\* the metal layer is powered and update_gates has run, the metal open flag
\* is true.
C5_ChargeRetention ==
    ( /\ origin = "from_cell"
      /\ cs.capacitor /\ cs.metal.value
      /\ cs.metal.powered
      /\ last \in {"update_gates", "update_gates_again"} ) => cs.metal.open

\* C6: update_gates applied again with no powered flag written in between
\* leaves the open flags of all three layers as the first application set
\* them.
C6_GateIdempotence ==
    [][last' = "update_gates_again" => Opens(cs') = Opens(cs)]_vars

C6_Witness ==
    /\ last = "update_gates_again"
    /\ origin = "ctor"
    /\ cs.capacitor /\ cs.metal.value /\ ~cs.metal.powered
    /\ cs.ntype.value /\ cs.ptype.value /\ ~cs.n_on_top /\ cs.ptype.powered
    /\ Opens(cs) = <<FALSE, TRUE, FALSE>>

\* C9: update_gates never changes a metal open flag from false to true; for
\* a capacitor cell from_cell returns metal.open = false and it stays false
\* through every sequence of powered writes and update_gates.
C9_CapacitorNeverReopens ==
    /\ []((origin = "from_cell" /\ cs.capacitor) => ~cs.metal.open)
    /\ [][(last' \in {"update_gates", "update_gates_again"}
             /\ ~cs.metal.open) => ~cs'.metal.open]_vars

C9_Witness ==
    /\ origin = "from_cell"
    /\ cs.capacitor /\ cs.metal.value
    /\ cs.metal.powered
    /\ last = "update_gates"
    /\ ~cs.metal.open

====
